---------------------------- MODULE Spec2Model ----------------------------
(***************************************************************************)
(* Model of the jira-tracker time tracker: the task store (alchemy.py),    *)
(* the lifecycle controller (time_tracking.py), the listing window         *)
(* (gui/main_window.py), and the application with its floating widget      *)
(* (main.py, gui/widget.py, reminder_tracker.py).                          *)
(*                                                                         *)
(* Conventions.  A nullable column holds <<>> for Python's None and <<v>>  *)
(* for a value v.  Timestamps are stored as ISO text; the instant t is     *)
(* written isoformat(t) and read back by fromisoformat.  Durations are    *)
(* counted in clock units, so calculate_duration is end - start (the       *)
(* division by 3600 and floating-point rounding are not modelled).         *)
(* datetime.now() is the wall clock, which may be set back: every reading  *)
(* is an arbitrary instant of Times.                                       *)
(***************************************************************************)
EXTENDS Integers, Sequences, FiniteSets, TLC

VARIABLES
    tasks,           \* the rows of table "tasks": a set of records
    main_window,     \* TimeTrackerWidget.main_window: has MainWindow been built
    date_selector,   \* MainWindow.date_selector: the date chosen
    table,           \* MainWindow.table: the rows shown, as cell contents
    selected_tasks,  \* MainWindow.selected_tasks: ids ticked
    ret,             \* the last call: its name, task id, returned value, error
    born,            \* per task id: created_date as assigned at creation
    hist,            \* per task id: the sessions run so far
    calls,           \* operations performed so far in a bounded run
    current_task_id, \* TimeTrackerApp.current_task_id
    widget,          \* TimeTrackerWidget: its controls and timers
    worklogs,        \* the issue tracker: worklogs it accepted, per task id
    sync_log,        \* the sync_selected_tasks run just made: answers, effects
    notified         \* this timer run: elapsed_time at its last notifications

\* born, hist, calls, sync_log and notified are history variables: no
\* operation reads them
winVars == <<main_window, date_selector, table, selected_tasks>>
appVars == <<current_task_id, widget, notified>>
jiraVars == <<worklogs, sync_log>>
vars == <<tasks, main_window, date_selector, table, selected_tasks,
          ret, born, hist, calls, current_task_id, widget,
          worklogs, sync_log, notified>>

---------------------------------------------------------------------------
(* Bounds *)

MaxId == 2
MaxTime == 1
MaxDur == 2
MaxCalls == 5
MaxElapsed == 1
MaxWorklogs == 2
MaxRun == 5400

\* notify_timer_running: seconds in an hour, and the least distance between
\* two "Timer Running" and two "Timer Running for a Long Time" notifications
HourSeconds == 3600
PeriodicGap == 900
LongGap == 1800

Ids == 1..MaxId
Times == 0..MaxTime
Durations == (0 - MaxDur)..MaxDur

---------------------------------------------------------------------------
(* Values *)

None == <<>>
Some(v) == <<v>>
IsSet(o) == o # <<>>
Val(o) == o[1]

\* the text datetime.isoformat() gives for the instant t
IsoText == <<"T0", "T1", "T2", "T3", "T4", "T5", "T6", "T7", "T8", "T9">>
isoformat(t) == IsoText[t + 1]
IsIso(s) == \E i \in 1..Len(IsoText) : IsoText[i] = s
\* datetime.fromisoformat(s); defined for ISO text only (ValueError otherwise)
fromisoformat(s) == (CHOOSE i \in 1..Len(IsoText) : IsoText[i] = s) - 1

\* the date part of that text: what date.isoformat() gives for the day of t.
\* Consecutive instants are half a day apart.
IsoDate == <<"D0", "D1", "D1", "D2", "D2", "D3", "D3", "D4", "D4", "D5">>
DatePrefix(s) == IsoDate[fromisoformat(s) + 1]
Dates == {IsoDate[t + 1] : t \in Times}

\* Python truthiness of a nullable text column: None and "" are falsy
Truthy(o) == IsSet(o) /\ Val(o) # ""
\* (x or 0) for a nullable number
OrZero(o) == IF IsSet(o) /\ Val(o) # 0 THEN Val(o) ELSE 0

SetMax(S) == CHOOSE m \in S : \A x \in S : x <= m

---------------------------------------------------------------------------
(* Task store: alchemy.py *)

\* class Task: the columns of a freshly inserted row
Task(id, name, jira_key, notes, created_date) ==
    [task_id |-> id,
     task_name |-> name,
     start_time |-> None,
     end_time |-> None,
     duration |-> None,
     jira_key |-> jira_key,
     created_date |-> created_date,
     task_id_required |-> 0,
     synced |-> 0,
     notes |-> notes,
     worklog_id |-> None]

\* the integer primary key SQLite gives an inserted row: one more than the
\* largest key in the table
NextId(store) ==
    IF store = {} THEN 1 ELSE SetMax({r.task_id : r \in store}) + 1

\* session.query(Task).filter_by(task_id=id).first()
QueryFirst(store, id) ==
    IF \E r \in store : r.task_id = id
    THEN Some(CHOOSE r \in store : r.task_id = id)
    ELSE None

\* get_task: the row's snapshot, or None
get_task(store, id) == QueryFirst(store, id)

\* create_task: one new row, created_date = now; returns its id
create_task(store, name, jira_key, notes, now) ==
    LET id == NextId(store)
    IN  [tasks |-> store \cup {Task(id, name, jira_key, notes, isoformat(now))},
         id |-> id]

\* valid_fields with created_date let through
valid_fields_created ==
    {"task_name", "start_time", "end_time", "duration",
     "jira_key", "synced", "notes", "worklog_id", "created_date"}

\* the field whitelist of update_task
valid_fields ==
    {"task_name", "start_time", "end_time", "duration",
     "jira_key", "synced", "notes", "worklog_id"}

\* update_fields without the filter on valid_fields
update_fields_unfiltered(kwargs) == DOMAIN kwargs

\* update_fields = {k: v for k, v in kwargs.items() if k in valid_fields}
update_fields(kwargs) == {k \in DOMAIN kwargs : k \in valid_fields}

\* for key, value in update_fields.items(): setattr(task, key, value)
SetAttrs(row, kwargs) ==
    [f \in DOMAIN row |->
        IF f \in update_fields(kwargs) THEN kwargs[f] ELSE row[f]]

\* update_task without the early return on an empty field set
update_task_noreturn(store, id, kwargs) ==
    IF ~IsSet(QueryFirst(store, id))
    THEN [tasks |-> store, err |-> "no_row", wrote |-> FALSE]
    ELSE LET task == Val(QueryFirst(store, id))
         IN  [tasks |-> (store \ {task}) \cup {SetAttrs(task, kwargs)},
              err |-> "ok", wrote |-> TRUE]

\* update_task that returns quietly when the row is missing
update_task_quiet(store, id, kwargs) ==
    IF update_fields(kwargs) = {} \/ ~IsSet(QueryFirst(store, id))
    THEN [tasks |-> store, err |-> "ok", wrote |-> FALSE]
    ELSE LET task == Val(QueryFirst(store, id))
         IN  [tasks |-> (store \ {task}) \cup {SetAttrs(task, kwargs)},
              err |-> "ok", wrote |-> TRUE]

\* update_task(task_id, **kwargs): the store after the call and its outcome.
\* With no whitelisted field it returns before opening a session; on a
\* missing row setattr(None, ...) raises and nothing is committed.
update_task(store, id, kwargs) ==
    IF update_fields(kwargs) = {}
    THEN [tasks |-> store, err |-> "ok", wrote |-> FALSE]
    ELSE IF ~IsSet(QueryFirst(store, id))
    THEN [tasks |-> store, err |-> "no_row", wrote |-> FALSE]
    ELSE LET task == Val(QueryFirst(store, id))
         IN  [tasks |-> (store \ {task}) \cup {SetAttrs(task, kwargs)},
              err |-> "ok", wrote |-> TRUE]

\* update_task whose failing commit leaves the first field written
update_task_torn(store, id, kwargs) ==
    IF update_fields(kwargs) = {}
    THEN [tasks |-> store, err |-> "ok", wrote |-> FALSE]
    ELSE IF ~IsSet(QueryFirst(store, id))
    THEN [tasks |-> store, err |-> "no_row", wrote |-> FALSE]
    ELSE LET task == Val(QueryFirst(store, id))
             key == CHOOSE k \in update_fields(kwargs) : TRUE
         IN  [tasks |-> (store \ {task})
                            \cup {[task EXCEPT ![key] = kwargs[key]]},
              err |-> "commit_failed", wrote |-> FALSE]

\* update_task when session.commit() raises (a storage fault): the
\* attributes were set on the session's object only, nothing is stored
update_task_commit_fails(store, id, kwargs) ==
    IF update_fields(kwargs) = {}
    THEN [tasks |-> store, err |-> "ok", wrote |-> FALSE]
    ELSE IF ~IsSet(QueryFirst(store, id))
    THEN [tasks |-> store, err |-> "no_row", wrote |-> FALSE]
    ELSE [tasks |-> store, err |-> "commit_failed", wrote |-> FALSE]

\* delete_tasks that deletes nothing unless every given id is stored
delete_tasks_strict(store, task_ids) ==
    IF task_ids \subseteq {r.task_id : r \in store}
    THEN {r \in store : r.task_id \notin task_ids}
    ELSE store

\* delete_tasks(task_ids): DELETE ... WHERE task_id IN (task_ids)
delete_tasks(store, task_ids) == {r \in store : r.task_id \notin task_ids}

---------------------------------------------------------------------------
(* Lifecycle controller: time_tracking.py *)

\* calculate_duration on two datetime objects: hours between them
calculate_duration(start, end) == end - start

\* total_duration that drops what was accumulated before
total_duration_replace(previous, new_duration) == new_duration

\* total_duration = (task[4] or 0) + new_duration
total_duration(previous, new_duration) == OrZero(previous) + new_duration

\* start_task that does not pass notes on to create_task
start_task_nonotes(store, name, jira_key, notes, now1, now2) ==
    LET c == create_task(store, name, jira_key, None, now1)
        u == update_task(c.tasks, c.id, [start_time |-> Some(isoformat(now2))])
    IN  [tasks |-> u.tasks, id |-> c.id, err |-> u.err]

\* start_task: create the row, then write start_time = now (a second reading)
start_task(store, name, jira_key, notes, now1, now2) ==
    LET c == create_task(store, name, jira_key, notes, now1)
        u == update_task(c.tasks, c.id, [start_time |-> Some(isoformat(now2))])
    IN  [tasks |-> u.tasks, id |-> c.id, err |-> u.err]

\* pause_task without the "hasn't been started" check: calculate_duration
\* gives 0.0 for a missing start
pause_task_unchecked(store, id, now) ==
    LET task == get_task(store, id)
    IN  IF ~IsSet(task)
        THEN [tasks |-> store, val |-> None, err |-> "not_found"]
        ELSE IF Truthy(Val(task).start_time) /\ ~IsIso(Val(Val(task).start_time))
        THEN [tasks |-> store, val |-> None, err |-> "bad_isoformat"]
        ELSE LET new_duration ==
                     IF Truthy(Val(task).start_time)
                     THEN calculate_duration(
                              fromisoformat(Val(Val(task).start_time)), now)
                     ELSE 0
                 total == total_duration(Val(task).duration, new_duration)
                 u == update_task(store, id,
                          [end_time |-> Some(isoformat(now)),
                           duration |-> Some(total)])
             IN  [tasks |-> u.tasks, val |-> Some(total), err |-> u.err]

\* pause_task
pause_task(store, id, now) ==
    LET task == get_task(store, id)
    IN  IF ~IsSet(task)
        THEN [tasks |-> store, val |-> None, err |-> "not_found"]
        ELSE IF Truthy(Val(task).start_time) /\ ~IsIso(Val(Val(task).start_time))
        THEN [tasks |-> store, val |-> None, err |-> "bad_isoformat"]
        ELSE IF ~Truthy(Val(task).start_time)
        THEN [tasks |-> store, val |-> None, err |-> "not_started"]
        ELSE LET start_time == fromisoformat(Val(Val(task).start_time))
                 new_duration == calculate_duration(start_time, now)
                 total == total_duration(Val(task).duration, new_duration)
                 u == update_task(store, id,
                          [end_time |-> Some(isoformat(now)),
                           duration |-> Some(total)])
             IN  [tasks |-> u.tasks, val |-> Some(total), err |-> u.err]

\* resume_task that also clears the accumulated duration
resume_task_reset(store, id, now) ==
    LET task == get_task(store, id)
    IN  IF ~IsSet(task)
        THEN [tasks |-> store, val |-> None, err |-> "not_found"]
        ELSE LET u == update_task(store, id,
                          [start_time |-> Some(isoformat(now)),
                           end_time |-> None,
                           duration |-> None])
             IN  [tasks |-> u.tasks, val |-> None, err |-> u.err]

\* resume_task
resume_task(store, id, now) ==
    LET task == get_task(store, id)
    IN  IF ~IsSet(task)
        THEN [tasks |-> store, val |-> None, err |-> "not_found"]
        ELSE LET u == update_task(store, id,
                          [start_time |-> Some(isoformat(now)),
                           end_time |-> None])
             IN  [tasks |-> u.tasks, val |-> None, err |-> u.err]

\* stop_task that logs a missing task and returns instead of raising
stop_task_quiet(store, id, now) ==
    LET task == get_task(store, id)
    IN  IF ~IsSet(task)
        THEN [tasks |-> store, val |-> None, err |-> "ok"]
        ELSE pause_task(store, id, now)

\* stop_task
stop_task(store, id, now) ==
    LET task == get_task(store, id)
    IN  IF ~IsSet(task)
        THEN [tasks |-> store, val |-> None, err |-> "not_found"]
        ELSE IF Truthy(Val(task).start_time) /\ ~IsIso(Val(Val(task).start_time))
        THEN [tasks |-> store, val |-> None, err |-> "bad_isoformat"]
        ELSE IF ~Truthy(Val(task).start_time)
        THEN [tasks |-> store, val |-> None, err |-> "not_started"]
        ELSE LET start_time == fromisoformat(Val(Val(task).start_time))
                 new_duration == calculate_duration(start_time, now)
                 total == total_duration(Val(task).duration, new_duration)
                 u == update_task(store, id,
                          [end_time |-> Some(isoformat(now)),
                           duration |-> Some(total)])
             IN  [tasks |-> u.tasks, val |-> Some(total), err |-> u.err]

\* update_task whose session.commit() goes through or raises
update_task_commit(store, id, kwargs, commit) ==
    IF commit
    THEN update_task(store, id, kwargs)
    ELSE update_task_commit_fails(store, id, kwargs)

\* pause_task whose update_task commits or not: the exception of a failed
\* commit is logged and raised again, nothing is returned
pause_task_commit(store, id, now, commit) ==
    LET p == pause_task(store, id, now)
    IN  IF commit \/ p.err # "ok"
        THEN p
        ELSE LET u == update_task_commit(store, id,
                          [end_time |-> Some(isoformat(now)),
                           duration |-> p.val], commit)
             IN  [tasks |-> u.tasks, val |-> None, err |-> u.err]

---------------------------------------------------------------------------
(* Listing window: gui/main_window.py *)

\* str(value or ""): the text of a table cell
Text(o) == IF Truthy(o) THEN Val(o) ELSE ""

\* the rows of S as a sequence, largest task_id first: order_by(task_id.desc())
RECURSIVE SeqDesc(_)
SeqDesc(S) ==
    IF S = {} THEN <<>>
    ELSE LET m == CHOOSE r \in S : \A o \in S : o.task_id <= r.task_id
         IN  <<m>> \o SeqDesc(S \ {m})

\* the ids of S as a sequence, smallest first (the table's rowid order)
RECURSIVE SeqAsc(_)
SeqAsc(S) ==
    IF S = {} THEN <<>>
    ELSE LET m == CHOOSE i \in S : \A o \in S : i <= o
         IN  <<m>> \o SeqAsc(S \ {m})

\* get_tasks_for_date that selects on the day of start_time
get_tasks_for_date_started(store, date) ==
    SeqDesc({r \in store : /\ Truthy(r.start_time)
                           /\ IsIso(Val(r.start_time))
                           /\ DatePrefix(Val(r.start_time)) = date})

\* get_tasks_for_date: created_date LIKE '<date>%', newest id first
get_tasks_for_date(store, date) ==
    SeqDesc({r \in store : DatePrefix(r.created_date) = date})

\* populate_table: the cells of one row.  The duration cell keeps the raw
\* value as item data, and none when the column is NULL.
TableRow(r) ==
    [task_id |-> r.task_id,
     task_name |-> r.task_name,
     start_time |-> Text(r.start_time),
     end_time |-> Text(r.end_time),
     duration |-> r.duration,
     jira_key |-> Text(r.jira_key)]

populate_table(rows) == [i \in 1..Len(rows) |-> TableRow(rows[i])]

\* load_tasks_for_date
load_tasks_for_date(store, date) ==
    populate_table(get_tasks_for_date(store, date))

\* calculate_duration on two cell texts: 0.0 when one is empty
calculate_duration_text(start, end) ==
    IF start = "" \/ end = "" THEN 0
    ELSE calculate_duration(fromisoformat(start), fromisoformat(end))

\* can calculate_duration parse the two texts
Parses(start, end) ==
    start = "" \/ end = "" \/ (IsIso(start) /\ IsIso(end))

\* recalculate_selected_durations that adds the interval of the row's
\* cells to the stored duration
RECURSIVE RecalculateRows_added(_, _, _, _)
RecalculateRows_added(i, store, tbl, selected) ==
    IF i > Len(tbl)
    THEN [tasks |-> store, table |-> tbl, err |-> "ok"]
    ELSE IF tbl[i].task_id \notin selected
    THEN RecalculateRows_added(i + 1, store, tbl, selected)
    ELSE IF ~Parses(tbl[i].start_time, tbl[i].end_time)
    THEN [tasks |-> store, table |-> tbl, err |-> "bad_isoformat"]
    ELSE LET new_duration ==
                 total_duration(tbl[i].duration,
                     calculate_duration_text(tbl[i].start_time,
                                             tbl[i].end_time))
             shown == [tbl EXCEPT ![i].duration = Some(new_duration)]
             u == update_task(store, tbl[i].task_id,
                              [duration |-> Some(new_duration)])
         IN  IF u.err # "ok"
             THEN [tasks |-> store, table |-> shown, err |-> u.err]
             ELSE RecalculateRows_added(i + 1, u.tasks, shown, selected)

\* recalculate_selected_durations, from table row i on: each ticked row's
\* duration cell and stored duration become calculate_duration(start, end)
\* of the row's cells; an exception ends the loop
RECURSIVE RecalculateRows(_, _, _, _)
RecalculateRows(i, store, tbl, selected) ==
    IF i > Len(tbl)
    THEN [tasks |-> store, table |-> tbl, err |-> "ok"]
    ELSE IF tbl[i].task_id \notin selected
    THEN RecalculateRows(i + 1, store, tbl, selected)
    ELSE IF ~Parses(tbl[i].start_time, tbl[i].end_time)
    THEN [tasks |-> store, table |-> tbl, err |-> "bad_isoformat"]
    ELSE LET new_duration ==
                 calculate_duration_text(tbl[i].start_time, tbl[i].end_time)
             shown == [tbl EXCEPT ![i].duration = Some(new_duration)]
             u == update_task(store, tbl[i].task_id,
                              [duration |-> Some(new_duration)])
         IN  IF u.err # "ok"
             THEN [tasks |-> store, table |-> shown, err |-> u.err]
             ELSE RecalculateRows(i + 1, u.tasks, shown, selected)

\* save_all_changes: update_data of one table row
update_data(row) ==
    [task_name |-> row.task_name,
     start_time |-> Some(row.start_time),
     end_time |-> Some(row.end_time),
     duration |-> row.duration,
     jira_key |-> Some(row.jira_key)]

\* save_all_changes, from table row i on: update_task per row; an exception
\* ends the loop
RECURSIVE SaveRows(_, _, _)
SaveRows(i, store, tbl) ==
    IF i > Len(tbl)
    THEN [tasks |-> store, err |-> "ok"]
    ELSE LET u == update_task(store, tbl[i].task_id, update_data(tbl[i]))
         IN  IF u.err # "ok"
             THEN [tasks |-> store, err |-> u.err]
             ELSE SaveRows(i + 1, u.tasks, tbl)

\* what the user answers to "Enter JIRA Key": (ok, text)
PromptAnswers ==
    << [ok |-> FALSE, text |-> ""],
       [ok |-> TRUE, text |-> "WPM-200"],
       [ok |-> TRUE, text |-> ""] >>

\* what the tracker answers to the worklog POST: (status_code, id), and
\* whether the commit of the update_task that follows a 201 goes through
PostAnswers ==
    << [status_code |-> 500, id |-> 0, commit |-> TRUE],
       [status_code |-> 201, id |-> 9001, commit |-> TRUE],
       [status_code |-> 201, id |-> 9002, commit |-> FALSE] >>

\* log_work_to_jira that records synced alone
log_work_to_jira_synced(store, id, answer) ==
    IF answer.status_code # 201
    THEN [tasks |-> store, err |-> "post_failed", posted |-> FALSE]
    ELSE [tasks |-> update_task(store, id, [synced |-> 1]).tasks,
          err |-> "ok", posted |-> TRUE]

\* log_work_to_jira(task_id, time_spent_hours, jira_key), the POST answered
\* by answer: worklog_id and synced are written after a 201 only.  posted
\* tells whether the tracker accepted a worklog.
log_work_to_jira(store, id, answer) ==
    LET task == get_task(store, id)
    IN  IF ~IsSet(task)
        THEN [tasks |-> store, err |-> "not_found", posted |-> FALSE]
        ELSE IF ~Truthy(Val(task).start_time)
                \/ ~IsIso(Val(Val(task).start_time))
        THEN [tasks |-> store, err |-> "bad_isoformat", posted |-> FALSE]
        ELSE IF answer.status_code # 201
        THEN [tasks |-> store, err |-> "post_failed", posted |-> FALSE]
        ELSE LET kwargs == [worklog_id |-> Some(answer.id), synced |-> 1]
                 u == IF answer.commit
                      THEN update_task(store, id, kwargs)
                      ELSE update_task_commit_fails(store, id, kwargs)
             IN  [tasks |-> u.tasks, err |-> u.err, posted |-> TRUE]

\* task.jira_key = jira_key; session.commit()
SetJiraKey(store, id, text) ==
    LET task == Val(QueryFirst(store, id))
    IN  (store \ {task}) \cup {[task EXCEPT !.jira_key = Some(text)]}

\* "if ok:" that takes a cancelled prompt for an answer
PromptAccepted_always(answer) == TRUE

\* jira_key, ok = QInputDialog.getText(...); if ok:
PromptAccepted(answer) == answer.ok

\* the selected tasks the loop prompts for a key, and those it posts
NeedsPrompt(store, selected) ==
    {r.task_id : r \in {q \in store : /\ q.task_id \in selected
                                       /\ q.synced = 0
                                       /\ ~Truthy(q.jira_key)}}

NeedsPost(store, selected) ==
    {r.task_id : r \in {q \in store : /\ q.task_id \in selected
                                       /\ q.synced = 0
                                       /\ Truthy(q.jira_key)
                                       /\ OrZero(q.duration) > 0}}

\* one more task handled by the loop of sync_selected_tasks
Prompted(r, id) == [r EXCEPT !.prompted = @ \cup {id}]
Posted(r, id) == [r EXCEPT !.posted = @ \cup {id}]

\* sync_selected_tasks, the loop from the i-th queried task on.  ids are the
\* queried tasks in rowid order; the progress dialog is cancelled before
\* iteration cancel_at; prompt and post give the answers per task.  The
\* result names the tasks the user was prompted for and those whose worklog
\* the tracker accepted.
RECURSIVE SyncRows(_, _, _, _, _, _)
SyncRows(ids, i, store, cancel_at, prompt, post) ==
    IF i > Len(ids) \/ i = cancel_at
    THEN [tasks |-> store, err |-> "ok", prompted |-> {}, posted |-> {}]
    ELSE LET task == Val(QueryFirst(store, ids[i]))
         IN  IF task.synced # 0
             THEN SyncRows(ids, i + 1, store, cancel_at, prompt, post)
             ELSE IF ~Truthy(task.jira_key)
             THEN IF PromptAccepted(PromptAnswers[prompt[ids[i]]])
                  THEN Prompted(SyncRows(ids, i + 1,
                           SetJiraKey(store, ids[i],
                                      PromptAnswers[prompt[ids[i]]].text),
                           cancel_at, prompt, post), ids[i])
                  ELSE Prompted(SyncRows(ids, i + 1, store, cancel_at,
                                         prompt, post), ids[i])
             ELSE IF OrZero(task.duration) > 0
             THEN LET l == log_work_to_jira(store, ids[i],
                                            PostAnswers[post[ids[i]]])
                  IN  IF l.err # "ok"
                      THEN [tasks |-> l.tasks, err |-> l.err, prompted |-> {},
                            posted |-> IF l.posted THEN {ids[i]} ELSE {}]
                      ELSE Posted(SyncRows(ids, i + 1, l.tasks, cancel_at,
                                           prompt, post), ids[i])
             ELSE SyncRows(ids, i + 1, store, cancel_at, prompt, post)

---------------------------------------------------------------------------
(* Application and floating widget: main.py, gui/widget.py *)

\* what the user can type into jira_ticket, with what startswith("WPM-")
\* and len() give for each text
TicketTexts ==
    << [text |-> "", startswith_wpm |-> FALSE, len |-> 0],
       [text |-> "WPM-1", startswith_wpm |-> TRUE, len |-> 5],
       [text |-> "WPM-100", startswith_wpm |-> TRUE, len |-> 7],
       [text |-> "ABC-1000", startswith_wpm |-> FALSE, len |-> 8] >>

TicketInfo(text) ==
    TicketTexts[CHOOSE k \in 1..Len(TicketTexts) : TicketTexts[k].text = text]

\* the entries of task_dropdown (tasks_new.json)
DropdownTexts == {"Select a task", "Development"}

\* TimeTrackerWidget.__init__ and initUI
WidgetInit ==
    [task_dropdown |-> "Select a task",
     task_dropdown_enabled |-> TRUE,
     jira_ticket |-> "",
     jira_ticket_enabled |-> TRUE,
     task_label |-> "No active task",
     time_label |-> 0,
     start_button |-> FALSE,
     pause_button |-> FALSE,
     stop_button |-> FALSE,
     update_timer |-> FALSE,
     elapsed_time |-> 0,
     notification_timer |-> TRUE,
     reminder_tracker |-> TRUE,
     blink_timer |-> FALSE,
     blink_state |-> TRUE,
     last_sent |-> <<>>]

\* update_button_states(task_active, task_paused)
update_button_states(w, task_active, task_paused) ==
    LET is_enabled ==
            /\ ~task_active \/ task_paused
            /\ w.jira_ticket # ""
            /\ TicketInfo(w.jira_ticket).startswith_wpm
            /\ TicketInfo(w.jira_ticket).len > 5
    IN  [w EXCEPT !.start_button = is_enabled,
                  !.pause_button = task_active /\ ~task_paused,
                  !.stop_button = task_active \/ task_paused,
                  !.task_dropdown_enabled = ~task_active \/ task_paused,
                  !.jira_ticket_enabled = ~task_active \/ task_paused]

\* on_jira_ticket_changed(text), after the line edit took the text
on_jira_ticket_changed(w, text) ==
    LET typed == [w EXCEPT !.jira_ticket = text]
    IN  IF ~typed.update_timer
        THEN update_button_states(typed, FALSE, FALSE)
        ELSE typed

\* start_timer that leaves the reminder tracker running
start_timer_reminding(w) ==
    [w EXCEPT !.elapsed_time = 0,
              !.update_timer = TRUE,
              !.task_dropdown_enabled = FALSE,
              !.jira_ticket_enabled = FALSE]

\* start_timer
start_timer(w) ==
    [w EXCEPT !.elapsed_time = 0,
              !.update_timer = TRUE,
              !.reminder_tracker = FALSE,
              !.task_dropdown_enabled = FALSE,
              !.jira_ticket_enabled = FALSE]

\* pause_timer
pause_timer(w) ==
    [w EXCEPT !.update_timer = FALSE, !.reminder_tracker = TRUE]

\* stop_timer; the "Timer Completed" notification changes nothing here
stop_timer(w) ==
    [w EXCEPT !.update_timer = FALSE,
              !.reminder_tracker = TRUE,
              !.task_dropdown_enabled = TRUE,
              !.jira_ticket_enabled = TRUE,
              !.elapsed_time = 0,
              !.time_label = 0]

\* the application's state as its handlers see it
App(store, cur, w) == [tasks |-> store, current_task_id |-> cur, widget |-> w]

\* if self.current_task_id:
HasCurrent(cur) == IsSet(cur) /\ Val(cur) # 0

\* handle_start that starts a new task also when there is a current one
handle_start_new(a, now1, now2) ==
    LET task_name == a.widget.task_dropdown
        s == start_task(a.tasks, task_name, Some(a.widget.jira_ticket),
                        None, now1, now2)
    IN  IF task_name = "Select a task"
        THEN [app |-> a, id |-> 0, val |-> None, err |-> "ok"]
        ELSE [app |-> App(s.tasks, Some(s.id),
                          start_timer(update_button_states(
                              [a.widget EXCEPT !.task_label = task_name],
                              TRUE, FALSE))),
              id |-> s.id, val |-> None, err |-> "ok"]

\* handle_start: resume the current task or start a new one; an exception
\* is logged and ends the handler where it was raised
handle_start(a, now1, now2) ==
    LET task_name == a.widget.task_dropdown
        ticket_number == a.widget.jira_ticket
        shown(w) == start_timer(update_button_states(
                        [w EXCEPT !.task_label = task_name], TRUE, FALSE))
    IN  IF task_name = "Select a task"
        THEN [app |-> a, id |-> 0, val |-> None, err |-> "ok"]
        ELSE IF HasCurrent(a.current_task_id)
        THEN LET r == resume_task(a.tasks, Val(a.current_task_id), now1)
             IN  IF r.err # "ok"
                 THEN [app |-> a, id |-> Val(a.current_task_id),
                       val |-> None, err |-> r.err]
                 ELSE [app |-> App(r.tasks, a.current_task_id, shown(a.widget)),
                       id |-> Val(a.current_task_id), val |-> None, err |-> "ok"]
        ELSE LET s == start_task(a.tasks, task_name, Some(ticket_number),
                                 None, now1, now2)
             IN  IF s.err # "ok"
                 THEN [app |-> App(s.tasks, a.current_task_id, a.widget),
                       id |-> s.id, val |-> None, err |-> s.err]
                 ELSE [app |-> App(s.tasks, Some(s.id), shown(a.widget)),
                       id |-> s.id, val |-> None, err |-> "ok"]

\* handle_pause
handle_pause(a, now) ==
    IF ~HasCurrent(a.current_task_id)
    THEN [app |-> a, id |-> 0, val |-> None, err |-> "ok"]
    ELSE LET p == pause_task(a.tasks, Val(a.current_task_id), now)
         IN  IF p.err # "ok"
             THEN [app |-> a, id |-> Val(a.current_task_id),
                   val |-> None, err |-> p.err]
             ELSE [app |-> App(p.tasks, a.current_task_id,
                               pause_timer(update_button_states(
                                   a.widget, FALSE, TRUE))),
                   id |-> Val(a.current_task_id), val |-> p.val, err |-> "ok"]

\* handle_stop
handle_stop(a, now) ==
    IF ~HasCurrent(a.current_task_id)
    THEN [app |-> a, id |-> 0, val |-> None, err |-> "ok"]
    ELSE LET p == stop_task(a.tasks, Val(a.current_task_id), now)
         IN  IF p.err # "ok"
             THEN [app |-> a, id |-> Val(a.current_task_id),
                   val |-> None, err |-> p.err]
             ELSE [app |-> App(p.tasks, None,
                               stop_timer(update_button_states(
                                   [a.widget EXCEPT
                                       !.task_label = "No active task"],
                                   FALSE, FALSE))),
                   id |-> Val(a.current_task_id), val |-> p.val, err |-> "ok"]

\* update_time: show elapsed_time, then count one second
update_time(a) ==
    [a EXCEPT !.widget.time_label = a.widget.elapsed_time,
              !.widget.elapsed_time = a.widget.elapsed_time + 1]

\* check_notification_triggers that gives the current task up
check_notification_triggers_forget(a) ==
    [a EXCEPT !.current_task_id = None]

\* n update_time callbacks in a row
update_time_for(a, n) ==
    [a EXCEPT !.widget.time_label = a.widget.elapsed_time + n - 1,
              !.widget.elapsed_time = a.widget.elapsed_time + n]

\* task_identifier = f"{task_name} ({jira_key})" if jira_key else task_name
task_identifier(task_name, jira_key) == <<task_name, jira_key>>

\* self.last_sent.get(notification_key, 0)
LastSent(last_sent, key) ==
    IF key \in DOMAIN last_sent THEN last_sent[key] ELSE 0

\* self.last_sent[notification_key] = elapsed_time
SetLastSent(last_sent, key, elapsed_time) ==
    [k \in DOMAIN last_sent \cup {key} |->
        IF k = key THEN elapsed_time ELSE last_sent[k]]

\* notify_timer_running(task_name, elapsed_time, jira_key): the manager's
\* last_sent after the call and the priority of the notification sent
notify_timer_running(last_sent, task_name, elapsed_time, jira_key) ==
    LET hours == elapsed_time \div HourSeconds
        id == task_identifier(task_name, jira_key)
        notification_key == IF hours >= 1 THEN <<"long_timer", id>>
                            ELSE <<"periodic", id>>
        last_time == LastSent(last_sent, notification_key)
        gap == IF hours >= 1 THEN LongGap ELSE PeriodicGap
    IN  IF elapsed_time - last_time >= gap
        THEN [last_sent |-> SetLastSent(last_sent, notification_key,
                                        elapsed_time),
              sent |-> IF hours >= 1 THEN "high" ELSE "low"]
        ELSE [last_sent |-> last_sent, sent |-> ""]

\* what check_notification_triggers has notify_timer_running do
TimerRunning(a) ==
    notify_timer_running(a.widget.last_sent, a.widget.task_label,
                         a.widget.elapsed_time, a.widget.jira_ticket)

\* check_notification_triggers: notify_timer_running when update_timer is
\* active; it reads task_label, jira_ticket and elapsed_time
check_notification_triggers(a) ==
    IF a.widget.update_timer
    THEN [a EXCEPT !.widget.last_sent = TimerRunning(a).last_sent]
    ELSE a

\* the notification check_notification_triggers sends, "" for none
TimerRunningSent(a) ==
    IF a.widget.update_timer THEN TimerRunning(a).sent ELSE ""

\* TimerReminderTracker.check_timer_status: send_reminder when the tracker
\* is running and update_timer is not active
check_timer_status(a) == a

\* does check_timer_status call send_reminder: "reminder" or ""
ReminderSent(a) ==
    IF a.widget.reminder_tracker /\ ~a.widget.update_timer
    THEN "reminder" ELSE ""

\* toggle_time_visibility
toggle_time_visibility(a) ==
    [a EXCEPT !.widget.blink_state = ~a.widget.blink_state]

---------------------------------------------------------------------------
(* Inputs *)

\* (task_name, jira_key, notes) given to create_task / start_task
TaskInputs ==
    << <<"A", None, None>>,
       <<"B", Some("WPM-100"), Some("n")>> >>

\* keyword arguments given to update_task
UpdateArgs ==
    << [k \in {} |-> None],
       [bogus_field |-> "x"],
       [created_date |-> "T9", task_id_required |-> 1],
       [duration |-> Some(2), bogus_field |-> "x"],
       [task_name |-> "C", notes |-> Some("m")],
       [synced |-> 1, worklog_id |-> Some(7), created_date |-> "T9"] >>

\* the id lists delete_tasks is called with; some name ids never stored
DeleteArgs == << {}, {1}, {2}, {1, 2}, {2, 3}, {1, 2, 3} >>

\* what the user types into a cell of the table: (column, text)
CellEdits ==
    << <<"task_name", "Z">>,
       <<"start_time", "">>,
       <<"start_time", "T0">>,
       <<"start_time", "xx">>,
       <<"end_time", "T1">>,
       <<"jira_key", "WPM-300">> >>

---------------------------------------------------------------------------
(* History of sessions, kept beside the program state.  For a task driven  *)
(* by start_task, then (pause_task, resume_task) pairs, then stop_task,    *)
(* sum is the total length of the sessions that have ended, and begun the  *)
(* clock reading that opened the session now running.                      *)

NoHist == [st |-> "none", sum |-> 0, begun |-> 0]

HistStart(now) == [st |-> "run", sum |-> 0, begun |-> now]

HistEnd(h, now, st) ==
    [st |-> st, sum |-> h.sum + (now - h.begun), begun |-> 0]

HistResume(h, now) == [st |-> "run", sum |-> h.sum, begun |-> now]

\* the record of a sync_selected_tasks run: the tasks the user was prompted
\* for with the answers given, and the tasks whose worklog was accepted
SyncLog(prompt, prompted, posted) ==
    [prompt |-> [i \in prompted |-> prompt[i]],
     prompted |-> prompted, posted |-> posted]

NoSync == SyncLog(<<>>, {}, {})

\* sent: the notification a timer's callback sent, "" for none
Ret(op, id, arg, now, val, err) ==
    [op |-> op, id |-> id, arg |-> arg, now |-> now, val |-> val, err |-> err,
     sent |-> ""]

\* no "Timer Running" notification yet in this timer run
NoNotified == [low |-> None, high |-> None]

---------------------------------------------------------------------------
(* State machine *)

\* the database is new and MainWindow is not built yet
Init ==
    /\ tasks = {}
    /\ main_window = FALSE
    /\ date_selector = ""
    /\ table = <<>>
    /\ selected_tasks = {}
    /\ ret = Ret("init", 0, 0, 0, None, "ok")
    /\ born = [i \in Ids |-> ""]
    /\ hist = [i \in Ids |-> NoHist]
    /\ calls = 0
    /\ current_task_id = None
    /\ widget = WidgetInit
    /\ worklogs = [i \in Ids |-> 0]
    /\ sync_log = NoSync
    /\ notified = NoNotified

\* create_task(name, jira_key, notes) called with input a at clock reading now
CreateCall(a, now) ==
    LET c == create_task(tasks, TaskInputs[a][1], TaskInputs[a][2],
                         TaskInputs[a][3], now)
    IN  /\ c.id <= MaxId
        /\ tasks' = c.tasks
        /\ ret' = Ret("create_task", c.id, a, now, None, "ok")
        /\ born' = [born EXCEPT ![c.id] = isoformat(now)]
        /\ UNCHANGED winVars

\* update_task(id, **kwargs) called with the a-th keyword arguments
UpdateCall(id, a) ==
    LET u == update_task(tasks, id, UpdateArgs[a])
    IN  /\ tasks' = u.tasks
        /\ ret' = Ret("update_task", id, a, 0, None, u.err)
        /\ UNCHANGED <<born, winVars>>

\* delete_tasks(task_ids) called with the a-th id list
DeleteCall(a) ==
    /\ tasks' = delete_tasks(tasks, DeleteArgs[a])
    /\ ret' = Ret("delete_tasks", 0, a, 0, None, "ok")
    /\ born' = [i \in Ids |-> IF i \in DeleteArgs[a] THEN "" ELSE born[i]]
    /\ UNCHANGED winVars

\* start_task(name, jira_key, notes): now1 is read by create_task, now2 after
StartCall(a, now1, now2) ==
    LET s == start_task(tasks, TaskInputs[a][1], TaskInputs[a][2],
                        TaskInputs[a][3], now1, now2)
    IN  /\ s.id <= MaxId
        /\ tasks' = s.tasks
        /\ ret' = Ret("start_task", s.id, a, now2, None, s.err)
        /\ born' = [born EXCEPT ![s.id] = isoformat(now1)]
        /\ UNCHANGED winVars

\* pause_task(id)
PauseCall(id, now) ==
    LET p == pause_task(tasks, id, now)
    IN  /\ IsSet(p.val) => Val(p.val) \in Durations
        /\ tasks' = p.tasks
        /\ ret' = Ret("pause_task", id, 0,
                      IF p.err = "ok" THEN now ELSE 0, p.val, p.err)
        /\ UNCHANGED <<born, winVars>>

\* resume_task(id)
ResumeCall(id, now) ==
    LET p == resume_task(tasks, id, now)
    IN  /\ tasks' = p.tasks
        /\ ret' = Ret("resume_task", id, 0,
                      IF p.err = "ok" THEN now ELSE 0, p.val, p.err)
        /\ UNCHANGED <<born, winVars>>

\* stop_task(id)
StopCall(id, now) ==
    LET p == stop_task(tasks, id, now)
    IN  /\ IsSet(p.val) => Val(p.val) \in Durations
        /\ tasks' = p.tasks
        /\ ret' = Ret("stop_task", id, 0,
                      IF p.err = "ok" THEN now ELSE 0, p.val, p.err)
        /\ UNCHANGED <<born, winVars>>

\* update_task(id, **kwargs) with a commit that may fail
UpdateCommitCall(id, a, commit) ==
    LET u == update_task_commit(tasks, id, UpdateArgs[a], commit)
    IN  /\ tasks' = u.tasks
        /\ ret' = Ret("update_task", id, a, 0, None, u.err)
        /\ UNCHANGED <<born, winVars>>

\* pause_task(id) with a commit that may fail
PauseCommitCall(id, now, commit) ==
    LET p == pause_task_commit(tasks, id, now, commit)
    IN  /\ IsSet(p.val) => Val(p.val) \in Durations
        /\ tasks' = p.tasks
        /\ ret' = Ret("pause_task", id, 0,
                      IF p.err = "ok" THEN now ELSE 0, p.val, p.err)
        /\ UNCHANGED <<born, winVars>>

\* TimeTrackerWidget.handle_expand, first time: MainWindow() is built, the
\* date selector shows today and today's tasks are loaded
ExpandCall(now) ==
    /\ ~main_window
    /\ main_window' = TRUE
    /\ date_selector' = IsoDate[now + 1]
    /\ table' = load_tasks_for_date(tasks, IsoDate[now + 1])
    /\ selected_tasks' = {}
    /\ ret' = Ret("handle_expand", 0, 0, now, None, "ok")
    /\ UNCHANGED <<tasks, born>>

\* the user picks another date in date_selector
DateCall(date) ==
    /\ main_window
    /\ date_selector' = date
    /\ ret' = Ret("date_selector", 0, 0, 0, None, "ok")
    /\ UNCHANGED <<tasks, born, main_window, table, selected_tasks>>

\* Apply / Refresh: load_tasks_for_date
LoadCall ==
    /\ main_window
    /\ table' = load_tasks_for_date(tasks, date_selector)
    /\ ret' = Ret("load_tasks_for_date", 0, 0, 0, None, "ok")
    /\ UNCHANGED <<tasks, born, main_window, date_selector, selected_tasks>>

\* on_checkbox_changed for the checkbox of table row i
CheckboxCall(i) ==
    /\ main_window
    /\ i \in 1..Len(table)
    /\ selected_tasks' =
           IF table[i].task_id \in selected_tasks
           THEN selected_tasks \ {table[i].task_id}
           ELSE selected_tasks \cup {table[i].task_id}
    /\ ret' = Ret("on_checkbox_changed", table[i].task_id, 0, 0, None, "ok")
    /\ UNCHANGED <<tasks, born, main_window, date_selector, table>>

\* the user edits a cell of table row i (the e-th edit of CellEdits)
EditCall(i, e) ==
    /\ main_window
    /\ i \in 1..Len(table)
    /\ table' = [table EXCEPT ![i][CellEdits[e][1]] = CellEdits[e][2]]
    /\ ret' = Ret("on_item_changed", table[i].task_id, e, 0, None, "ok")
    /\ UNCHANGED <<tasks, born, main_window, date_selector, selected_tasks>>

\* recalculate_selected_durations
RecalculateCall ==
    /\ main_window
    /\ IF selected_tasks = {}
       THEN /\ ret' = Ret("recalculate_selected_durations", 0, 0, 0, None, "ok")
            /\ UNCHANGED <<tasks, table>>
       ELSE LET r == RecalculateRows(1, tasks, table, selected_tasks)
            IN  /\ tasks' = r.tasks
                /\ table' = r.table
                /\ ret' = Ret("recalculate_selected_durations", 0, 0, 0,
                              None, r.err)
    /\ UNCHANGED <<born, main_window, date_selector, selected_tasks>>

\* save_all_changes
SaveCall ==
    /\ main_window
    /\ LET r == SaveRows(1, tasks, table)
       IN  /\ tasks' = r.tasks
           /\ ret' = Ret("save_all_changes", 0, 0, 0, None, r.err)
    /\ UNCHANGED <<born, winVars>>

\* delete_selected_tasks, the confirmation answered by yes
DeleteSelectedCall(yes) ==
    /\ main_window
    /\ IF selected_tasks = {} \/ ~yes
       THEN UNCHANGED <<tasks, born, table, selected_tasks>>
       ELSE /\ tasks' = delete_tasks(tasks, selected_tasks)
            /\ born' = [i \in Ids |-> IF i \in selected_tasks THEN "" ELSE born[i]]
            /\ selected_tasks' = {}
            /\ table' = load_tasks_for_date(delete_tasks(tasks, selected_tasks),
                                            date_selector)
    /\ ret' = Ret("delete_selected_tasks", 0, 0, 0, None, "ok")
    /\ UNCHANGED <<main_window, date_selector>>

\* sync_selected_tasks; the table is reloaded unless an exception ended it
SyncCall(cancel_at, prompt, post) ==
    /\ main_window
    /\ IF selected_tasks = {}
       THEN /\ ret' = Ret("sync_selected_tasks", 0, 0, 0, None, "ok")
            /\ sync_log' = NoSync
            /\ UNCHANGED <<tasks, table, worklogs>>
       ELSE LET ids == SeqAsc({i \in selected_tasks : IsSet(QueryFirst(tasks, i))})
                r == SyncRows(ids, 1, tasks, cancel_at, prompt, post)
            IN  /\ \A i \in r.posted : worklogs[i] < MaxWorklogs
                /\ tasks' = r.tasks
                /\ table' = IF r.err = "ok"
                            THEN load_tasks_for_date(r.tasks, date_selector)
                            ELSE table
                /\ worklogs' = [i \in Ids |->
                                   IF i \in r.posted THEN worklogs[i] + 1
                                   ELSE worklogs[i]]
                /\ sync_log' = SyncLog(prompt, r.prompted, r.posted)
                /\ ret' = Ret("sync_selected_tasks", 0, 0, 0, None, r.err)
    /\ UNCHANGED <<born, main_window, date_selector, selected_tasks>>

---------------------------------------------------------------------------
(* The store's interface called in any order *)

CreateTask ==
    \E a \in 1..Len(TaskInputs), now \in Times :
        CreateCall(a, now) /\ UNCHANGED <<hist, calls, appVars, jiraVars>>

UpdateTask ==
    \E id \in Ids, a \in 1..Len(UpdateArgs) :
        UpdateCall(id, a) /\ UNCHANGED <<hist, calls, appVars, jiraVars>>

DeleteTasks ==
    \E a \in 1..Len(DeleteArgs) :
        DeleteCall(a) /\ UNCHANGED <<hist, calls, appVars, jiraVars>>

NextStore ==
    \/ CreateTask
    \/ UpdateTask
    \/ DeleteTasks

SpecStore == Init /\ [][NextStore]_vars

---------------------------------------------------------------------------
(* The controller's interface called in any order, on any id *)

StartTask ==
    \E a \in 1..Len(TaskInputs), now1 \in Times, now2 \in Times :
        StartCall(a, now1, now2) /\ UNCHANGED <<hist, calls, appVars, jiraVars>>

PauseTask ==
    \E id \in Ids, now \in Times :
        PauseCall(id, now) /\ UNCHANGED <<hist, calls, appVars, jiraVars>>

ResumeTask ==
    \E id \in Ids, now \in Times :
        ResumeCall(id, now) /\ UNCHANGED <<hist, calls, appVars, jiraVars>>

StopTask ==
    \E id \in Ids, now \in Times :
        StopCall(id, now) /\ UNCHANGED <<hist, calls, appVars, jiraVars>>

NextLifecycle ==
    \/ CreateTask
    \/ StartTask
    \/ PauseTask
    \/ ResumeTask
    \/ StopTask

SpecLifecycle == Init /\ [][NextLifecycle]_vars

---------------------------------------------------------------------------
(* The store's writes under storage faults: any commit may fail *)

\* the multi-field keyword arguments of UpdateArgs
FaultUpdates == {5, 6}

\* tasks are started at clock reading 0
FaultStart ==
    \E a \in 1..Len(TaskInputs) :
        StartCall(a, 0, 0) /\ UNCHANGED <<hist, calls, appVars, jiraVars>>

FaultUpdate ==
    \E id \in Ids, a \in FaultUpdates, commit \in BOOLEAN :
        /\ UpdateCommitCall(id, a, commit)
        /\ UNCHANGED <<hist, calls, appVars, jiraVars>>

FaultPause ==
    \E id \in Ids, now \in Times, commit \in BOOLEAN :
        /\ PauseCommitCall(id, now, commit)
        /\ UNCHANGED <<hist, calls, appVars, jiraVars>>

NextFaults ==
    \/ FaultStart
    \/ FaultUpdate
    \/ FaultPause

SpecFaults == Init /\ [][NextFaults]_vars

---------------------------------------------------------------------------
(* One task after another driven through start_task, then pause_task and   *)
(* resume_task in turn, then stop_task; the tasks' calls interleave.       *)

SessionStart ==
    \E a \in 1..Len(TaskInputs), now1 \in Times, now2 \in Times :
        /\ StartCall(a, now1, now2)
        /\ hist' = [hist EXCEPT ![NextId(tasks)] = HistStart(now2)]
        /\ UNCHANGED <<calls, appVars, jiraVars>>

SessionPause ==
    \E id \in Ids, now \in Times :
        /\ hist[id].st = "run"
        /\ PauseCall(id, now)
        /\ hist' = [hist EXCEPT ![id] = HistEnd(hist[id], now, "paused")]
        /\ UNCHANGED <<calls, appVars, jiraVars>>

SessionResume ==
    \E id \in Ids, now \in Times :
        /\ hist[id].st = "paused"
        /\ ResumeCall(id, now)
        /\ hist' = [hist EXCEPT ![id] = HistResume(hist[id], now)]
        /\ UNCHANGED <<calls, appVars, jiraVars>>

SessionStop ==
    \E id \in Ids, now \in Times :
        /\ hist[id].st = "run"
        /\ StopCall(id, now)
        /\ hist' = [hist EXCEPT ![id] = HistEnd(hist[id], now, "stopped")]
        /\ UNCHANGED <<calls, appVars, jiraVars>>

NextSessions ==
    \/ SessionStart
    \/ SessionPause
    \/ SessionResume
    \/ SessionStop

SpecSessions == Init /\ [][NextSessions]_vars

---------------------------------------------------------------------------
(* The sessions of tasks with the listing window open beside them: the     *)
(* table is loaded and saved at any moment, no cell is edited              *)

\* one task, started at clock reading 0, the day the window shows
SaveStart ==
    /\ tasks = {}
    /\ StartCall(1, 0, 0)
    /\ hist' = [hist EXCEPT ![NextId(tasks)] = HistStart(0)]
    /\ UNCHANGED <<calls, appVars, jiraVars>>

\* the sessions' total stays within the durations counted
SumBounded == \A i \in Ids : hist'[i].sum \in Durations

SavePause == SessionPause /\ SumBounded

SaveResume == SessionResume /\ SumBounded

SaveStop == SessionStop /\ SumBounded

SaveExpand == ExpandCall(0) /\ UNCHANGED <<hist, calls, appVars, jiraVars>>

SaveLoad == LoadCall /\ UNCHANGED <<hist, calls, appVars, jiraVars>>

SaveAll == SaveCall /\ UNCHANGED <<hist, calls, appVars, jiraVars>>

NextSave ==
    \/ SaveStart
    \/ SavePause
    \/ SaveResume
    \/ SaveStop
    \/ SaveExpand
    \/ SaveLoad
    \/ SaveAll

SpecSave == Init /\ [][NextSave]_vars

---------------------------------------------------------------------------
(* The listing window beside the store and the controller: every run of   *)
(* at most MaxCalls operations                                             *)

\* the inputs of these runs
AppInputs == {1}
AppUpdates == {6}
AppEdits == {2, 5}

Counted ==
    /\ calls < MaxCalls
    /\ calls' = calls + 1
    /\ UNCHANGED <<hist, appVars>>

CreateStep ==
    \E a \in AppInputs, now \in Times :
        CreateCall(a, now) /\ Counted /\ UNCHANGED jiraVars

UpdateStep ==
    \E id \in Ids, a \in AppUpdates :
        UpdateCall(id, a) /\ Counted /\ UNCHANGED jiraVars

StartStep ==
    \E a \in AppInputs, now1 \in Times, now2 \in Times :
        StartCall(a, now1, now2) /\ Counted /\ UNCHANGED jiraVars

PauseStep ==
    \E id \in Ids, now \in Times :
        PauseCall(id, now) /\ Counted /\ UNCHANGED jiraVars

ResumeStep ==
    \E id \in Ids, now \in Times :
        ResumeCall(id, now) /\ Counted /\ UNCHANGED jiraVars

StopStep ==
    \E id \in Ids, now \in Times :
        StopCall(id, now) /\ Counted /\ UNCHANGED jiraVars

ExpandStep ==
    \E now \in Times : ExpandCall(now) /\ Counted /\ UNCHANGED jiraVars

DateStep ==
    \E date \in Dates : DateCall(date) /\ Counted /\ UNCHANGED jiraVars

LoadStep == LoadCall /\ Counted /\ UNCHANGED jiraVars

CheckboxStep ==
    \E i \in 1..MaxId : CheckboxCall(i) /\ Counted /\ UNCHANGED jiraVars

EditStep ==
    \E i \in 1..MaxId, e \in AppEdits : EditCall(i, e) /\ Counted /\ UNCHANGED jiraVars

RecalculateStep == RecalculateCall /\ Counted /\ UNCHANGED jiraVars

SaveStep == SaveCall /\ Counted /\ UNCHANGED jiraVars

DeleteStep ==
    \E yes \in BOOLEAN : DeleteSelectedCall(yes) /\ Counted /\ UNCHANGED jiraVars

SyncStep ==
    \E cancel_at \in 1..(MaxId + 1),
       prompt \in [NeedsPrompt(tasks, selected_tasks) -> 1..Len(PromptAnswers)],
       post \in [NeedsPost(tasks, selected_tasks) -> 1..Len(PostAnswers)] :
        SyncCall(cancel_at, prompt, post) /\ Counted

Next ==
    \/ CreateStep
    \/ UpdateStep
    \/ StartStep
    \/ PauseStep
    \/ ResumeStep
    \/ StopStep
    \/ ExpandStep
    \/ DateStep
    \/ LoadStep
    \/ CheckboxStep
    \/ EditStep
    \/ RecalculateStep
    \/ SaveStep
    \/ DeleteStep
    \/ SyncStep

Spec == Init /\ [][Next]_vars

---------------------------------------------------------------------------
(* The application: button clicks on the widget and its timers' callbacks *)

\* the application's state after a handler, and what the handler returned
AppStep(op, h, now, created) ==
    /\ tasks' = h.app.tasks
    /\ current_task_id' = h.app.current_task_id
    /\ widget' = h.app.widget
    /\ ret' = Ret(op, h.id, 0, now, h.val, h.err)
    /\ notified' = IF ~widget.update_timer /\ h.app.widget.update_timer
                    THEN NoNotified
                    ELSE notified
    /\ born' = IF h.id \in Ids /\ ~IsSet(QueryFirst(tasks, h.id))
                  /\ IsSet(QueryFirst(h.app.tasks, h.id))
               THEN [born EXCEPT ![h.id] = created]
               ELSE born
    /\ UNCHANGED <<winVars, hist, calls, jiraVars>>

\* a timer's callback ran and sent the notification sent
Callback(op, a, sent) ==
    /\ tasks' = a.tasks
    /\ current_task_id' = a.current_task_id
    /\ widget' = a.widget
    /\ ret' = [Ret(op, 0, 0, 0, None, "ok") EXCEPT !.sent = sent]
    /\ notified' = IF sent = "low"
                    THEN [notified EXCEPT !.low = Some(widget.elapsed_time)]
                    ELSE IF sent = "high"
                    THEN [notified EXCEPT !.high = Some(widget.elapsed_time)]
                    ELSE notified
    /\ UNCHANGED <<born, winVars, hist, calls, jiraVars>>

\* start_button clicked: handle_start
ClickStart ==
    \E now1 \in Times, now2 \in Times :
        LET h == handle_start(App(tasks, current_task_id, widget), now1, now2)
        IN  /\ widget.start_button
            /\ h.id <= MaxId
            /\ AppStep("handle_start", h, now1, isoformat(now1))

\* pause_button clicked: handle_pause
ClickPause ==
    \E now \in Times :
        LET h == handle_pause(App(tasks, current_task_id, widget), now)
        IN  /\ widget.pause_button
            /\ IsSet(h.val) => Val(h.val) \in Durations
            /\ AppStep("handle_pause", h, now, "")

\* stop_button clicked: handle_stop
ClickStop ==
    \E now \in Times :
        LET h == handle_stop(App(tasks, current_task_id, widget), now)
        IN  /\ widget.stop_button
            /\ IsSet(h.val) => Val(h.val) \in Durations
            /\ AppStep("handle_stop", h, now, "")

\* the user picks an entry of task_dropdown
SelectTask ==
    \E name \in DropdownTexts :
        /\ widget.task_dropdown_enabled
        /\ name # widget.task_dropdown
        /\ widget' = [widget EXCEPT !.task_dropdown = name]
        /\ ret' = Ret("task_dropdown", 0, 0, 0, None, "ok")
        /\ UNCHANGED <<tasks, current_task_id, born, winVars, hist, calls,
                       jiraVars, notified>>

\* the user changes the text of jira_ticket: on_jira_ticket_changed
TypeTicket ==
    \E k \in 1..Len(TicketTexts) :
        /\ widget.jira_ticket_enabled
        /\ TicketTexts[k].text # widget.jira_ticket
        /\ widget' = on_jira_ticket_changed(widget, TicketTexts[k].text)
        /\ ret' = Ret("on_jira_ticket_changed", 0, 0, 0, None, "ok")
        /\ UNCHANGED <<tasks, current_task_id, born, winVars, hist, calls,
                       jiraVars, notified>>

\* update_timer fires: update_time
UpdateTime ==
    /\ widget.update_timer
    /\ widget.elapsed_time < MaxElapsed
    /\ Callback("update_time",
                update_time(App(tasks, current_task_id, widget)), "")

\* notification_timer fires: check_notification_triggers
CheckNotificationTriggers ==
    /\ widget.notification_timer
    /\ Callback("check_notification_triggers",
                check_notification_triggers(App(tasks, current_task_id, widget)),
                TimerRunningSent(App(tasks, current_task_id, widget)))

\* reminder_timer fires: TimerReminderTracker.check_timer_status
CheckTimerStatus ==
    /\ widget.reminder_tracker
    /\ Callback("check_timer_status",
                check_timer_status(App(tasks, current_task_id, widget)),
                ReminderSent(App(tasks, current_task_id, widget)))

\* blink_timer fires: toggle_time_visibility
ToggleTimeVisibility ==
    /\ widget.blink_timer
    /\ Callback("toggle_time_visibility",
                toggle_time_visibility(App(tasks, current_task_id, widget)), "")

\* start_blinking and stop_blinking: widget operations without a caller in
\* the application itself
StartBlinking ==
    /\ ~widget.blink_timer
    /\ widget' = [widget EXCEPT !.blink_timer = TRUE]
    /\ ret' = Ret("start_blinking", 0, 0, 0, None, "ok")
    /\ UNCHANGED <<tasks, current_task_id, born, winVars, hist, calls,
                   jiraVars, notified>>

StopBlinking ==
    /\ widget.blink_timer
    /\ widget' = [widget EXCEPT !.blink_timer = FALSE, !.blink_state = TRUE]
    /\ ret' = Ret("stop_blinking", 0, 0, 0, None, "ok")
    /\ UNCHANGED <<tasks, current_task_id, born, winVars, hist, calls,
                   jiraVars, notified>>

NextApp ==
    \/ ClickStart
    \/ ClickPause
    \/ ClickStop
    \/ SelectTask
    \/ TypeTicket
    \/ UpdateTime
    \/ CheckNotificationTriggers
    \/ CheckTimerStatus

SpecApp == Init /\ [][NextApp]_vars

\* the application with the blinking of time_label
NextTimers ==
    \/ ClickStart
    \/ ClickPause
    \/ ClickStop
    \/ SelectTask
    \/ TypeTicket
    \/ UpdateTime
    \/ CheckNotificationTriggers
    \/ CheckTimerStatus
    \/ ToggleTimeVisibility
    \/ StartBlinking
    \/ StopBlinking

SpecTimers == Init /\ [][NextTimers]_vars

---------------------------------------------------------------------------
(* One task name and ticket timed over long runs: the "Timer Running"      *)
(* notifications.  update_timer's callbacks are taken a quarter of an hour *)
(* at a time.                                                              *)

NotifySelect ==
    /\ widget.task_dropdown_enabled
    /\ widget.task_dropdown # "Development"
    /\ widget' = [widget EXCEPT !.task_dropdown = "Development"]
    /\ ret' = Ret("task_dropdown", 0, 0, 0, None, "ok")
    /\ UNCHANGED <<tasks, current_task_id, born, winVars, hist, calls,
                   jiraVars, notified>>

NotifyTicket ==
    /\ widget.jira_ticket_enabled
    /\ widget.jira_ticket # "WPM-100"
    /\ widget' = on_jira_ticket_changed(widget, "WPM-100")
    /\ ret' = Ret("on_jira_ticket_changed", 0, 0, 0, None, "ok")
    /\ UNCHANGED <<tasks, current_task_id, born, winVars, hist, calls,
                   jiraVars, notified>>

NotifyStart ==
    LET h == handle_start(App(tasks, current_task_id, widget), 0, 0)
    IN  /\ widget.start_button
        /\ h.id <= MaxId
        /\ AppStep("handle_start", h, 0, isoformat(0))

NotifyPause ==
    LET h == handle_pause(App(tasks, current_task_id, widget), 0)
    IN  /\ widget.pause_button
        /\ AppStep("handle_pause", h, 0, "")

NotifyStop ==
    LET h == handle_stop(App(tasks, current_task_id, widget), 0)
    IN  /\ widget.stop_button
        /\ AppStep("handle_stop", h, 0, "")

QuarterHour ==
    /\ widget.update_timer
    /\ widget.elapsed_time + PeriodicGap <= MaxRun
    /\ Callback("update_time",
                update_time_for(App(tasks, current_task_id, widget),
                                PeriodicGap), "")

NextNotify ==
    \/ NotifySelect
    \/ NotifyTicket
    \/ NotifyStart
    \/ NotifyPause
    \/ NotifyStop
    \/ QuarterHour
    \/ CheckNotificationTriggers

SpecNotify == Init /\ [][NextNotify]_vars

---------------------------------------------------------------------------
(* The widget's buttons beside the listing window's delete.  A button that *)
(* stays enabled is pressed sooner or later.                               *)

IdleExpand ==
    /\ ExpandCall(0)
    /\ UNCHANGED <<hist, calls, appVars, jiraVars>>

IdleCheckbox ==
    \E i \in 1..MaxId :
        CheckboxCall(i) /\ UNCHANGED <<hist, calls, appVars, jiraVars>>

IdleDelete ==
    /\ DeleteSelectedCall(TRUE)
    /\ UNCHANGED <<hist, calls, appVars, jiraVars>>

NextIdle ==
    \/ NotifySelect
    \/ NotifyTicket
    \/ NotifyStart
    \/ NotifyPause
    \/ NotifyStop
    \/ IdleExpand
    \/ IdleCheckbox
    \/ IdleDelete

SpecIdle ==
    /\ Init
    /\ [][NextIdle]_vars
    /\ WF_vars(NotifyStart)
    /\ WF_vars(NotifyPause)
    /\ WF_vars(NotifyStop)

---------------------------------------------------------------------------
(* Tasks started and paused, then ticked in the listing window and synced *)

\* an operation other than sync_selected_tasks: sync_log is emptied
NotSync ==
    /\ sync_log' = NoSync
    /\ UNCHANGED <<hist, calls, appVars, worklogs>>

\* the window is opened on the day the tasks are created
Expand == ExpandCall(0) /\ NotSync

LoadTasks == LoadCall /\ NotSync

Checkbox ==
    \E i \in 1..MaxId :
        CheckboxCall(i) /\ NotSync

SyncSelected ==
    \E cancel_at \in 1..(MaxId + 1),
       prompt \in [NeedsPrompt(tasks, selected_tasks) -> 1..Len(PromptAnswers)],
       post \in [NeedsPost(tasks, selected_tasks) -> 1..Len(PostAnswers)] :
        SyncCall(cancel_at, prompt, post) /\ UNCHANGED <<hist, calls, appVars>>

\* tasks with and without an issue key, each started and then paused
\* one clock unit later
SyncStart ==
    \E a \in 1..Len(TaskInputs) :
        StartCall(a, 0, 0) /\ NotSync

SyncPause ==
    \E id \in Ids :
        PauseCall(id, 1) /\ NotSync

NextSync ==
    \/ SyncStart
    \/ SyncPause
    \/ Expand
    \/ LoadTasks
    \/ Checkbox
    \/ SyncSelected

SpecSync == Init /\ [][NextSync]_vars

---------------------------------------------------------------------------
(* Properties *)

Row(store, id) == Val(QueryFirst(store, id))
Exists(store, id) == IsSet(QueryFirst(store, id))

\* Running: start_time set, end_time unset
Running(r) == Truthy(r.start_time) /\ ~Truthy(r.end_time)

\* C1: under start_task, (pause_task, resume_task) pairs, stop_task, the
\* duration stop_task returns and stores is the sum of the lengths of the
\* task's sessions; the time between a pause and the next resume is not in it.
C1_DurationIsSumOfSessions ==
    \A r \in tasks :
        hist[r.task_id].st = "stopped" =>
            /\ r.duration = Some(hist[r.task_id].sum)
            /\ (ret.op = "stop_task" /\ ret.id = r.task_id)
                   => ret.val = Some(hist[r.task_id].sum)

\* two sessions of one hour each, stopped: 2 hours returned
C1_Witness ==
    /\ ret.op = "stop_task" /\ ret.err = "ok" /\ ret.val = Some(2)
    /\ hist[ret.id].st = "stopped" /\ hist[ret.id].sum = 2

\* C3: pause_task and stop_task on an existing task whose start_time is
\* unset fail with "hasn't been started" and leave the store as it was.
C3_UnstartedPauseStopFails ==
    [][(/\ ret'.op \in {"pause_task", "stop_task"}
        /\ Exists(tasks, ret'.id)
        /\ Row(tasks, ret'.id).start_time = None)
       => (ret'.err = "not_started" /\ ret'.val = None /\ tasks' = tasks)]_vars

C3_Witness ==
    /\ ret.op = "pause_task" /\ ret.err = "not_started"
    /\ Exists(tasks, ret.id)
    /\ Row(tasks, ret.id).start_time = None
    /\ Row(tasks, ret.id).end_time = None
    /\ Row(tasks, ret.id).duration = None

\* C4: resume_task on an existing task sets start_time to the current time
\* and clears end_time; every other field of the task and every other task
\* stay as they were.
C4_ResumeFrame ==
    [][(ret'.op = "resume_task" /\ Exists(tasks, ret'.id))
       => /\ ret'.err = "ok"
          /\ tasks' = (tasks \ {Row(tasks, ret'.id)}) \cup
                 {[Row(tasks, ret'.id) EXCEPT
                      !.start_time = Some(isoformat(ret'.now)),
                      !.end_time = None]}]_vars

\* a paused task with accumulated duration resumed, beside another task
C4_Witness ==
    /\ ret.op = "resume_task" /\ ret.err = "ok"
    /\ Exists(tasks, ret.id)
    /\ Row(tasks, ret.id).duration = Some(1)
    /\ Row(tasks, ret.id).end_time = None
    /\ \E o \in tasks : o.task_id # ret.id /\ IsSet(o.end_time)

\* C5: resume_task on a task that was created but never started does not
\* make it Running.
C5_UnstartedNotResumable ==
    [][(/\ ret'.op = "resume_task"
        /\ Exists(tasks, ret'.id)
        /\ ~Truthy(Row(tasks, ret'.id).start_time))
       => ~Running(Row(tasks', ret'.id))]_vars

\* C6: start_task adds exactly one row, returns its id, and leaves it
\* Running: start_time the current time, end_time and duration unset,
\* name, jira_key and notes as given; the rows already there are not touched.
C6_StartTaskAddsRunningRow ==
    [][ret'.op = "start_task"
       => /\ ret'.err = "ok"
          /\ ~Exists(tasks, ret'.id)
          /\ Exists(tasks', ret'.id)
          /\ tasks' = tasks \cup {Row(tasks', ret'.id)}
          /\ Cardinality(tasks') = Cardinality(tasks) + 1
          /\ Row(tasks', ret'.id).start_time = Some(isoformat(ret'.now))
          /\ Row(tasks', ret'.id).end_time = None
          /\ Row(tasks', ret'.id).duration = None
          /\ Row(tasks', ret'.id).task_name = TaskInputs[ret'.arg][1]
          /\ Row(tasks', ret'.id).jira_key = TaskInputs[ret'.arg][2]
          /\ Row(tasks', ret'.id).notes = TaskInputs[ret'.arg][3]
          /\ Running(Row(tasks', ret'.id))]_vars

\* a second task started with jira_key and notes given
C6_Witness ==
    /\ ret.op = "start_task" /\ ret.arg = 2 /\ ret.id = 2
    /\ Cardinality(tasks) = 2
    /\ Row(tasks, 2).notes = Some("n")
    /\ Running(Row(tasks, 2))

\* the whitelist as the specification states it
Whitelist ==
    {"task_name", "start_time", "end_time", "duration",
     "jira_key", "synced", "notes", "worklog_id"}

Supplied(a) == DOMAIN UpdateArgs[a] \cap Whitelist

\* C7: update_task on an existing task changes exactly the supplied fields
\* of the whitelist; other supplied fields are ignored without error and
\* fields not supplied keep their values.
C7_UpdateExactlyWhitelisted ==
    [][(ret'.op = "update_task" /\ Exists(tasks, ret'.id))
       => /\ ret'.err = "ok"
          /\ tasks' = (tasks \ {Row(tasks, ret'.id)}) \cup
                 {[f \in DOMAIN Row(tasks, ret'.id) |->
                      IF f \in Supplied(ret'.arg)
                      THEN UpdateArgs[ret'.arg][f]
                      ELSE Row(tasks, ret'.id)[f]]}]_vars

\* update(duration=2, bogus_field="x") persisted duration = 2 and no more
C7_Witness ==
    /\ ret.op = "update_task" /\ ret.err = "ok" /\ ret.arg = 4
    /\ Exists(tasks, ret.id)
    /\ Row(tasks, ret.id).duration = Some(2)
    /\ "bogus_field" \notin DOMAIN Row(tasks, ret.id)
    /\ \E o \in tasks : o.task_id # ret.id

\* C9: update_task with no field, or only fields outside the whitelist,
\* raises nothing and leaves the whole store unchanged.
C9_EmptyUpdateNoOp ==
    [][(ret'.op = "update_task" /\ Supplied(ret'.arg) = {})
       => (ret'.err = "ok" /\ tasks' = tasks)]_vars

\* update with created_date and task_id_required only, on an existing row
C9_Witness ==
    /\ ret.op = "update_task" /\ ret.arg = 3 /\ ret.err = "ok"
    /\ Exists(tasks, ret.id)
    /\ Row(tasks, ret.id).created_date # "T9"
    /\ Row(tasks, ret.id).task_id_required = 0

\* C10: update_task with a whitelisted field and an id that is not in the
\* store fails, creates no row and leaves every row unchanged.
C10_UpdateMissingFails ==
    [][(/\ ret'.op = "update_task"
        /\ Supplied(ret'.arg) # {}
        /\ ~Exists(tasks, ret'.id))
       => (ret'.err = "no_row" /\ tasks' = tasks)]_vars

C10_Witness ==
    /\ ret.op = "update_task" /\ ret.err = "no_row"
    /\ ~Exists(tasks, ret.id)
    /\ tasks # {}

\* C2: across every step that is not the window's manual recompute, no
\* task's stored duration decreases (an unset duration counts as zero),
\* whatever the clock readings
C2_DurationNeverDecreases ==
    [][ret'.op # "recalculate_selected_durations" =>
           \A r \in tasks : \A q \in tasks' :
               q.task_id = r.task_id =>
                   OrZero(q.duration) >= OrZero(r.duration)]_vars

\* C8: task ids are pairwise distinct, and every existing task's id and
\* created_date are the ones assigned when it was created
C8_IdAndCreatedDateImmutable ==
    /\ \A r \in tasks : \A q \in tasks : r.task_id = q.task_id => r = q
    /\ \A r \in tasks : r.task_id \in Ids /\ r.created_date = born[r.task_id]

\* two tasks exist, one created later than and at another reading than the
\* other, and sync_selected_tasks has just written a row
C8_Witness ==
    /\ ret.op = "sync_selected_tasks"
    /\ ret.err = "ok"
    /\ Cardinality(tasks) = 2
    /\ \E r \in tasks : r.jira_key = Some("WPM-200")
    /\ \A r \in tasks : r.created_date = born[r.task_id]

\* C11: delete_tasks(ids) removes exactly the stored tasks whose id is in
\* ids, leaves every other task as it was, and raises no error, also when
\* ids names tasks that are not stored
C11_DeleteExactlyGiven ==
    [][ret'.op = "delete_tasks" =>
           /\ tasks' = {r \in tasks : r.task_id \notin DeleteArgs[ret'.arg]}
           /\ \A r \in tasks :
                  r.task_id \notin DeleteArgs[ret'.arg] => r \in tasks'
           /\ ret'.err = "ok"]_vars

\* delete_tasks was called with one id that is never stored among its ids,
\* and a task outside the list is still there
C11_Witness ==
    /\ ret.op = "delete_tasks"
    /\ \E i \in DeleteArgs[ret.arg] : i \notin Ids
    /\ \E i \in DeleteArgs[ret.arg] : i \in Ids /\ ~Exists(tasks, i)
    /\ \E r \in tasks : r.task_id \notin DeleteArgs[ret.arg]

\* the ids shown in a table, top row first
ShownIds(tbl) == [i \in 1..Len(tbl) |-> tbl[i].task_id]

\* C12: the rows load_tasks_for_date gets from get_tasks_for_date(D) are
\* exactly the stored tasks created on day D, in strictly descending id
\* order, whatever was done to a task on other days since its creation
C12_TasksForDate ==
    [][ret'.op \in {"load_tasks_for_date", "handle_expand"} =>
           /\ {ShownIds(table')[i] : i \in 1..Len(table')} =
                  {r.task_id : r \in
                      {q \in tasks' :
                          DatePrefix(born'[q.task_id]) = date_selector'}}
           /\ \A i \in 1..(Len(table') - 1) :
                  ShownIds(table')[i] > ShownIds(table')[i + 1]]_vars

\* the table was loaded for a day on which one task was created and then
\* paused on another day, while a task created on another day is left out
C12_Witness ==
    /\ ret.op \in {"load_tasks_for_date", "handle_expand"}
    /\ Len(table) = 1
    /\ Cardinality(tasks) = 2
    /\ \E r \in tasks :
           /\ r.task_id = table[1].task_id
           /\ Truthy(r.end_time)
           /\ DatePrefix(Val(r.end_time)) # date_selector
           /\ DatePrefix(r.created_date) = date_selector
    /\ \E r \in tasks : DatePrefix(r.created_date) # date_selector

\* C13: every stored duration is non-negative or unset, whatever the clock
\* reads at start, pause, resume and stop
C13_DurationNonNegative ==
    \A r \in tasks : IsSet(r.duration) => Val(r.duration) >= 0

\* C14: after any sequence of start, pause and stop clicks at most one task
\* is Running, and handle_start creates a task only when current_task_id
\* is None
C14_SingleCurrentTask ==
    [][/\ Cardinality({r \in tasks' : Running(r)}) <= 1
       /\ (/\ ret'.op = "handle_start"
           /\ \E r \in tasks' : ~Exists(tasks, r.task_id))
              => current_task_id = None]_vars

\* a second task was started after the first was stopped: it is the
\* current task and the only one Running
C14_Witness ==
    /\ ret.op = "handle_start"
    /\ current_task_id = Some(2)
    /\ Exists(tasks, 1) /\ Truthy(Row(tasks, 1).end_time)
    /\ Exists(tasks, 2) /\ Running(Row(tasks, 2))

\* the four periodic callbacks
TimerCallbacks ==
    {"check_notification_triggers", "check_timer_status",
     "update_time", "toggle_time_visibility"}

\* C18: check_notification_triggers, check_timer_status, update_time and
\* toggle_time_visibility leave the task store and current_task_id as
\* they were, in every state
C18_CallbacksReadOnly ==
    [][ret'.op \in TimerCallbacks =>
           /\ tasks' = tasks
           /\ current_task_id' = current_task_id]_vars

\* a callback has just run while a task was current and Running
C18_Witness ==
    /\ ret.op \in TimerCallbacks
    /\ IsSet(current_task_id)
    /\ \E r \in tasks : r.task_id = Val(current_task_id) /\ Running(r)
    /\ widget.update_timer
    /\ widget.elapsed_time > 0

\* C15: over any number of sync_selected_tasks runs the tracker accepts at
\* most one worklog per task, also when the update_task that follows the
\* accepted POST fails
C15_AtMostOneWorklog ==
    \A i \in Ids : worklogs[i] <= 1

\* C16: in every state a task has synced set exactly if it has a
\* worklog_id; a sync run changes the two fields only of tasks whose POST
\* the tracker answered with 201, and then sets both
C16_SyncedIffWorklogId ==
    [][/\ \A r \in tasks' : (r.synced # 0) <=> IsSet(r.worklog_id)
       /\ \A r \in tasks :
              \/ r.task_id \in sync_log'.posted
              \/ /\ Exists(tasks', r.task_id)
                 /\ Row(tasks', r.task_id).synced = r.synced
                 /\ Row(tasks', r.task_id).worklog_id = r.worklog_id]_vars

\* a run posted task 1 with success and task 2 with a failure: task 1 has
\* both fields, task 2 neither
C16_Witness ==
    /\ ret.op = "sync_selected_tasks"
    /\ ret.err = "post_failed"
    /\ sync_log.posted = {1}
    /\ Exists(tasks, 1) /\ Exists(tasks, 2)
    /\ Row(tasks, 1).synced = 1 /\ IsSet(Row(tasks, 1).worklog_id)
    /\ Row(tasks, 2).synced = 0 /\ ~IsSet(Row(tasks, 2).worklog_id)
    /\ Truthy(Row(tasks, 2).jira_key)
    /\ 2 \in selected_tasks

\* C17: a sync run posts no worklog for a task that had no issue key when
\* the run began, and a task whose prompt was cancelled keeps its row
C17_PromptBeforePost ==
    [][ret'.op = "sync_selected_tasks" =>
           \A r \in tasks :
               /\ ~Truthy(r.jira_key) => r.task_id \notin sync_log'.posted
               /\ (/\ r.task_id \in sync_log'.prompted
                   /\ ~PromptAnswers[sync_log'.prompt[r.task_id]].ok)
                      => /\ r \in tasks'
                         /\ worklogs'[r.task_id] = worklogs[r.task_id]]_vars

\* the prompt for task 1 was cancelled and task 2, which has a key, was
\* posted in the same run
C17_Witness ==
    /\ ret.op = "sync_selected_tasks"
    /\ sync_log.prompted = {1}
    /\ ~PromptAnswers[sync_log.prompt[1]].ok
    /\ Exists(tasks, 1)
    /\ ~Truthy(Row(tasks, 1).jira_key)
    /\ Row(tasks, 1).synced = 0
    /\ worklogs[1] = 0
    /\ sync_log.posted = {2}

\* C19: an update_task that fails, for a missing id or a failed write and
\* also inside pause_task, leaves every row as committed before; one that
\* succeeds writes all the fields given to it
C19_FailedUpdateKeepsRow ==
    [][/\ (ret'.op \in {"update_task", "pause_task"} /\ ret'.err # "ok")
              => tasks' = tasks
       /\ ret'.op = "update_task"
              => \A r \in tasks :
                     \/ r \in tasks'
                     \/ SetAttrs(r, UpdateArgs[ret'.arg]) \in tasks'
       /\ ret'.op = "pause_task"
              => \A r \in tasks :
                     \/ r \in tasks'
                     \/ [r EXCEPT !.end_time = Some(isoformat(ret'.now)),
                                  !.duration = ret'.val] \in tasks']_vars

\* the write of a pause failed: the task is still Running and has no
\* duration
C19_Witness ==
    /\ ret.op = "pause_task"
    /\ ret.err = "commit_failed"
    /\ Exists(tasks, ret.id)
    /\ Running(Row(tasks, ret.id))
    /\ ~IsSet(Row(tasks, ret.id).duration)

\* C20: pause_task, resume_task and stop_task called with an id that has
\* no row raise the not-found error to their caller and leave the store
\* as it was
C20_MissingIdRaises ==
    [][(/\ ret'.op \in {"pause_task", "resume_task", "stop_task"}
        /\ ~Exists(tasks, ret'.id))
           => /\ ret'.err = "not_found"
              /\ ret'.val = None
              /\ tasks' = tasks]_vars

\* stop_task was called on an id without a row while another task is
\* stored
C20_Witness ==
    /\ ret.op = "stop_task"
    /\ ret.err = "not_found"
    /\ ~Exists(tasks, ret.id)
    /\ tasks # {}

\* C21: recalculate_selected_durations stores, for each ticked row of the
\* table, the interval between the start and end cells of that row in
\* place of the stored duration, changes no other field, and leaves the
\* tasks that are not ticked as they were
C21_RecalculateReplaces ==
    [][ret'.op = "recalculate_selected_durations" =>
           /\ \A r \in tasks : r.task_id \notin selected_tasks => r \in tasks'
           /\ ret'.err = "ok" =>
                  \A i \in 1..Len(table) :
                      table[i].task_id \in selected_tasks =>
                          /\ Exists(tasks, table[i].task_id)
                          /\ [Row(tasks, table[i].task_id) EXCEPT
                                 !.duration = Some(calculate_duration_text(
                                     table[i].start_time,
                                     table[i].end_time))] \in tasks']_vars

\* a task paused with duration 1 was ticked and recalculated from the
\* cells T0 and T1: its duration is 1, not 1 + 1
C21_Witness ==
    /\ ret.op = "recalculate_selected_durations"
    /\ ret.err = "ok"
    /\ 1 \in selected_tasks
    /\ Len(table) >= 1
    /\ table[1].task_id = 1
    /\ table[1].start_time = "T0" /\ table[1].end_time = "T1"
    /\ Exists(tasks, 1)
    /\ Row(tasks, 1).duration = Some(1)
    /\ Row(tasks, 1).end_time = Some("T1")

\* C22: save_all_changes leaves the stored duration, synced and worklog_id
\* of every task at the values they had just before the save
C22_SaveKeepsDerivedFields ==
    [][ret'.op = "save_all_changes" =>
           \A r \in tasks :
               /\ Exists(tasks', r.task_id)
               /\ Row(tasks', r.task_id).duration = r.duration
               /\ Row(tasks', r.task_id).synced = r.synced
               /\ Row(tasks', r.task_id).worklog_id = r.worklog_id]_vars

\* the instants a row's start_time and end_time hold
StartOf(r) == fromisoformat(Val(r.start_time))
EndOf(r) == fromisoformat(Val(r.end_time))

\* C23: a task that start_task or resume_task returned for is Running; one
\* that pause_task or stop_task returned for has start_time and end_time
\* set, end_time not earlier than start_time, and a duration that is the
\* duration before plus the session just ended
C23_LifecycleShapes ==
    [][ret'.err = "ok" =>
           /\ ret'.op \in {"start_task", "resume_task"} =>
                  /\ Exists(tasks', ret'.id)
                  /\ Running(Row(tasks', ret'.id))
           /\ ret'.op \in {"pause_task", "stop_task"} =>
                  /\ Exists(tasks', ret'.id)
                  /\ LET r == Row(tasks', ret'.id)
                     IN  /\ Truthy(r.start_time) /\ Truthy(r.end_time)
                         /\ EndOf(r) >= StartOf(r)
                         /\ r.duration =
                                Some(OrZero(Row(tasks, ret'.id).duration)
                                     + (EndOf(r) - StartOf(r)))]_vars

\* elapsed_time now less elapsed_time at the notification o of this run,
\* or less 0 when the run has had none
SinceNotified(o) == widget.elapsed_time - (IF IsSet(o) THEN Val(o) ELSE 0)

\* C24: in every timer run, a check made while update_timer is active
\* sends the low-priority notification, during the first hour, exactly when
\* a quarter of an hour has elapsed since the last one of the run (or since
\* the run began); after the first hour it sends nothing but the
\* high-priority one, and that not within half an hour of the last
C24_TimerRunningNotifications ==
    [][(ret'.op = "check_notification_triggers" /\ widget.update_timer) =>
           /\ widget.elapsed_time < HourSeconds =>
                  (ret'.sent = "low"
                      <=> SinceNotified(notified.low) >= PeriodicGap)
           /\ widget.elapsed_time >= HourSeconds =>
                  /\ ret'.sent \in {"", "high"}
                  /\ (ret'.sent = "high" /\ IsSet(notified.high))
                         => SinceNotified(notified.high) >= LongGap]_vars

\* C25: after every start, pause and stop click the reminder tracker is
\* running exactly when update_timer is not active, and check_timer_status
\* calls send_reminder only while update_timer is not active
C25_ReminderWhenIdle ==
    [][/\ widget'.reminder_tracker <=> ~widget'.update_timer
       /\ ret'.sent = "reminder" => ~widget.update_timer]_vars

\* a reminder was sent while the current task is paused
C25_Witness ==
    /\ ret.op = "check_timer_status"
    /\ ret.sent = "reminder"
    /\ IsSet(current_task_id)
    /\ widget.reminder_tracker
    /\ ~widget.update_timer

\* C26: a stop click that follows a pause click of the same task, with
\* nothing in between, returns and stores the duration the pause returned
C26_StopAfterPauseAddsNothing ==
    [][(/\ ret.op = "handle_pause" /\ ret.err = "ok" /\ IsSet(ret.val)
        /\ ret'.op = "handle_stop" /\ ret'.err = "ok"
        /\ ret'.id = ret.id)
           => /\ ret'.val = ret.val
              /\ Exists(tasks', ret.id)
              /\ Row(tasks', ret.id).duration = ret.val]_vars

\* C27: whenever the application has a current task, button presses bring
\* it back to current_task_id = None, also after the task's row was
\* deleted in the listing window
C27_ReturnsToIdle ==
    [](IsSet(current_task_id) => <>(current_task_id = None))

\* the current task's row is Running
CurrentRunning ==
    /\ IsSet(current_task_id)
    /\ Exists(tasks, Val(current_task_id))
    /\ Running(Row(tasks, Val(current_task_id)))

\* C28: in every state of the widget the stop button is enabled exactly
\* when there is a current task, the pause button exactly when that task
\* is Running, and the start button is not enabled while it is Running
C28_ButtonStates ==
    /\ widget.stop_button <=> IsSet(current_task_id)
    /\ widget.pause_button <=> CurrentRunning
    /\ CurrentRunning => ~widget.start_button

\* C29: with the table loaded and saved at any moment between the calls, a
\* pause_task or stop_task adds to the stored duration the time elapsed
\* since the start_task or resume_task that opened the session
C29_SaveKeepsSessionStart ==
    [][(ret'.op \in {"pause_task", "stop_task"} /\ ret'.err = "ok") =>
           /\ Exists(tasks, ret'.id) /\ Exists(tasks', ret'.id)
           /\ Row(tasks', ret'.id).duration =
                  Some(OrZero(Row(tasks, ret'.id).duration)
                       + (ret'.now - hist[ret'.id].begun))]_vars

\* C30: selected_tasks holds only ids of tasks shown in the table, after
\* any sequence of checkbox toggles, date changes with Apply or Refresh,
\* and deletes
C30_SelectedAreShown ==
    selected_tasks \subseteq {table[i].task_id : i \in 1..Len(table)}

============================================================================
